---- MODULE Spec2Model ----
(***************************************************************************)
(* Authentication core of the Intellium / PatentGuard backend:             *)
(*   app/core/security.py   password hasher and token codec                *)
(*   app/api/auth.py        register, login, current-principal resolution  *)
(*   app/middleware/error_handler.py   mapping of exceptions to responses  *)
(*   app/middleware/rate_limit.py      the rate limiter and its key        *)
(* Time is counted in minutes.  The specifications share the state:        *)
(* Spec (the route handlers, for requests within the rate limits),         *)
(* SpecCodec (the token codec alone), SpecMe (current-principal resolution *)
(* over registered users and issued tokens), SpecLimit (register and login *)
(* behind their rate limits), SpecDefault (GET /auth/me under load),       *)
(* SpecKey (the rate-limit key function alone), SpecApp (requests by URL   *)
(* through the application's route table), SpecHash (the password hasher), *)
(* SpecFault (store failures and unexpected exceptions) and SpecScope      *)
(* (concurrent requests to GET /auth/me, each with its own context).       *)
(***************************************************************************)
EXTENDS Integers, FiniteSets, Sequences, TLC

VARIABLES users, nextId, pending, now, bearer, last, resp,
          storage, traffic, request, inflight

vars == <<users, nextId, pending, now, bearer, last, resp,
          storage, traffic, request, inflight>>

(***************************************************************************)
(* Bounds and input domains                                                *)
(***************************************************************************)
MaxTicks == 3
MaxPending == 2
MaxMinutes == 1
MaxOver == 1
MaxInflight == 2

Emails == {"a@x.com", "b@x.com"}
Passwords == {"password123", "wrongpassword"}
FullNames == {"New User"}
Salts == {"salt1", "salt2"}
RemoteAddrs == {"10.0.0.1", "10.0.0.2"}

\* Two passwords of 73 characters that differ in the last one only.
LongPasswords ==
    {"aaaaaaaaaaaaaaaaaaaaaaaaaaaaaaaaaaaaaaaaaaaaaaaaaaaaaaaaaaaaaaaaaaaaaaaa1",
     "aaaaaaaaaaaaaaaaaaaaaaaaaaaaaaaaaaaaaaaaaaaaaaaaaaaaaaaaaaaaaaaaaaaaaaaa2"}
HashPasswords == Passwords \cup LongPasswords

\* Exceptions the store raises when it cannot be reached, and exceptions
\* nothing in the handlers expects.
StoreFailures ==
    {[type |-> "SQLAlchemyError", detail |-> "OperationalError: connection refused"],
     [type |-> "SQLAlchemyError", detail |-> "TimeoutError: QueuePool limit reached"]}
Unexpected ==
    {[type |-> "Exception", detail |-> "RuntimeError: internal state"],
     [type |-> "Exception", detail |-> "MemoryError"]}

\* Stored hashes that are no bcrypt hash.
MalformedHashes ==
    {[scheme |-> "unknown", text |-> "not-a-hash"], [scheme |-> "unknown", text |-> ""]}

\* Python's None, as a record so that it compares with records.
None == [none |-> TRUE]

(***************************************************************************)
(* Configuration                                                           *)
(***************************************************************************)
SECRET_KEY == "server-secret"
OtherKeys == {"other-secret"}
ALGORITHM == "HS256"
ACCESS_TOKEN_EXPIRE_MINUTES == 30
REFRESH_TOKEN_EXPIRE_DAYS == 7

\* The clock advances in steps of half the default access-token lifetime.
TickStep == ACCESS_TOKEN_EXPIRE_MINUTES \div 2
MaxTime == MaxTicks * TickStep

\* expires_delta: <<>> is None, <<d>> is timedelta(minutes = d).
Deltas == {<<>>, <<-TickStep>>, <<0>>, <<TickStep>>}

(***************************************************************************)
(* Password hasher (bcrypt through passlib)                                *)
(***************************************************************************)
\* Result of a call: it returned `data`, or an exception left the function.
Returned(data) == [raised |-> FALSE, data |-> data]
Raised(exc) == [raised |-> TRUE, exc |-> exc]

\* bcrypt reads the first 72 bytes of the secret and no more.
BcryptMaxBytes == 72

bcrypt_secret(password) ==
    IF Len(password) > BcryptMaxBytes
    THEN SubSeq(password, 1, BcryptMaxBytes)
    ELSE password

\* pwd_context.hash: the salt is embedded in the hash.
get_password_hash(password, salt) ==
    [scheme |-> "bcrypt", salt |-> salt, digest |-> <<salt, bcrypt_secret(password)>>]

\* pwd_context.verify re-hashes the plaintext with the embedded salt; a hash
\* it cannot identify raises inside passlib.
pwd_context_verify(secret, hash) ==
    IF hash.scheme # "bcrypt"
    THEN Raised([type |-> "UnknownHashError", detail |-> "hash could not be identified"])
    ELSE Returned(hash.digest = <<hash.salt, bcrypt_secret(secret)>>)

\* verify_password answering True when the verification raised.
verify_password_FailOpen(plain_password, hashed_password) ==
    LET r == pwd_context_verify(plain_password, hashed_password)
    IN  IF r.raised THEN TRUE ELSE r.data

\* verify_password, lines 47-53: any exception is logged and answered False.
verify_password(plain_password, hashed_password) ==
    LET r == pwd_context_verify(plain_password, hashed_password)
    IN  IF r.raised THEN FALSE ELSE r.data

(***************************************************************************)
(* Token codec (python-jose, HS256)                                        *)
(***************************************************************************)
\* The MAC over header and payload under a key.
Sign(key, alg, payload) == [key |-> key, alg |-> alg, payload |-> payload]

jwt_encode(claims, key, alg) ==
    [form |-> "jws", alg |-> alg, payload |-> claims, sig |-> Sign(key, alg, claims)]

\* A string that is not three base64 segments.
Garbage == [form |-> "garbage"]

\* Python truthiness of an Optional[timedelta]: None and timedelta(0) are falsy.
Truthy(expires_delta) == Len(expires_delta) = 1 /\ expires_delta[1] # 0

create_access_token(data, expires_delta, t) ==
    LET expire == IF Truthy(expires_delta)
                  THEN t + expires_delta[1]
                  ELSE t + ACCESS_TOKEN_EXPIRE_MINUTES
        to_encode == [k \in DOMAIN data \cup {"exp", "iat"} |->
                         IF k = "exp" THEN expire
                         ELSE IF k = "iat" THEN t
                         ELSE data[k]]
    IN  jwt_encode(to_encode, SECRET_KEY, ALGORITHM)

create_refresh_token(data, expires_delta, t) ==
    LET delta == IF Len(expires_delta) = 0
                 THEN REFRESH_TOKEN_EXPIRE_DAYS * 24 * 60
                 ELSE expires_delta[1]
        expire == t + delta
        to_encode == [k \in DOMAIN data \cup {"exp", "type"} |->
                         IF k = "exp" THEN expire
                         ELSE IF k = "type" THEN "refresh"
                         ELSE data[k]]
    IN  jwt_encode(to_encode, SECRET_KEY, ALGORITHM)

\* jwt.decode with signature verification switched off.
jwt_decode_NoSignature(token, key, algorithms, t) ==
    IF token.form # "jws" THEN [exc |-> "JWTError"]
    ELSE IF "nbf" \in DOMAIN token.payload /\ "list" \in DOMAIN token.payload.nbf
         THEN [exc |-> "TypeError"]
    ELSE IF "nbf" \in DOMAIN token.payload /\ token.payload.nbf.int > t
         THEN [exc |-> "JWTError"]
    ELSE IF "exp" \in DOMAIN token.payload /\ token.payload.exp < t
         THEN [exc |-> "JWTError"]
    ELSE [exc |-> "none", claims |-> token.payload]

\* jose.jwt.decode: segments, algorithm allow-list, signature, then the claims
\* (nbf before exp).  A claim value is [int |-> n] or [list |-> s]; int() of a
\* list-valued nbf raises TypeError, which jose does not wrap in JWTError.
jwt_decode(token, key, algorithms, t) ==
    IF token.form # "jws" THEN [exc |-> "JWTError"]
    ELSE IF token.alg \notin algorithms THEN [exc |-> "JWTError"]
    ELSE IF token.sig # Sign(key, token.alg, token.payload) THEN [exc |-> "JWTError"]
    ELSE IF "nbf" \in DOMAIN token.payload /\ "list" \in DOMAIN token.payload.nbf
         THEN [exc |-> "TypeError"]
    ELSE IF "nbf" \in DOMAIN token.payload /\ token.payload.nbf.int > t
         THEN [exc |-> "JWTError"]
    ELSE IF "exp" \in DOMAIN token.payload /\ token.payload.exp < t
         THEN [exc |-> "JWTError"]
    ELSE [exc |-> "none", claims |-> token.payload]

\* decode_access_token without the final except clause.
decode_access_token_NoCatchAll(token, t) ==
    LET r == jwt_decode(token, SECRET_KEY, {ALGORITHM}, t)
    IN  IF r.exc = "JWTError" THEN Returned(None)
        ELSE IF r.exc # "none" THEN Raised([type |-> r.exc])
        ELSE IF "sub" \notin DOMAIN r.claims THEN Returned(None)
        ELSE Returned([email |-> r.claims.sub])

decode_access_token(token, t) ==
    LET r == jwt_decode(token, SECRET_KEY, {ALGORITHM}, t)
    IN  IF r.exc = "JWTError" THEN Returned(None)
        ELSE IF r.exc # "none" THEN Returned(None)
        ELSE IF "sub" \notin DOMAIN r.claims THEN Returned(None)
        ELSE Returned([email |-> r.claims.sub])

(***************************************************************************)
(* Credential store                                                        *)
(***************************************************************************)
\* db.query(User).filter(User.email == email)
query_by_email(store, email) == {u \in store : u.email = email}

\* .first(): the first matching row, or None.
first(rows) ==
    IF rows = {} THEN None
    ELSE CHOOSE u \in rows : \A v \in rows : u.id <= v.id

\* A store without the unique index on email.
db_commit_NoUniqueIndex(store, row) == Returned(store \cup {row})

\* db.add + db.commit: the store's unique index on email refuses a second row.
db_commit(store, row) ==
    IF query_by_email(store, row.email) # {}
    THEN Raised([type |-> "SQLAlchemyError", detail |-> "IntegrityError"])
    ELSE Returned(store \cup {row})

(***************************************************************************)
(* Boundary layer: exceptions and response models                          *)
(***************************************************************************)
HTTPException(status_code, detail) ==
    [type |-> "HTTPException", status_code |-> status_code, detail |-> detail]

http_exception_handler(exc, path) ==
    [status |-> exc.status_code,
     body |-> [error |-> <<"HTTP", exc.status_code>>, message |-> exc.detail,
               details |-> None, path |-> path]]

database_exception_handler(exc, path) ==
    [status |-> 500,
     body |-> [error |-> <<"DATABASE_ERROR">>, message |-> "A database error occurred",
               details |-> None, path |-> path]]

\* A catch-all handler that puts the exception's text into the body.
general_exception_handler_Leaky(exc, path) ==
    [status |-> 500,
     body |-> [error |-> <<"INTERNAL_SERVER_ERROR">>, message |-> exc.detail,
               details |-> None, path |-> path]]

general_exception_handler(exc, path) ==
    [status |-> 500,
     body |-> [error |-> <<"INTERNAL_SERVER_ERROR">>,
               message |-> "An unexpected error occurred",
               details |-> None, path |-> path]]

\* The handler registered for the exception's class.
handle_exception(exc, path) ==
    IF exc.type = "HTTPException" THEN http_exception_handler(exc, path)
    ELSE IF exc.type = "SQLAlchemyError" THEN database_exception_handler(exc, path)
    ELSE general_exception_handler(exc, path)

\* Public user representation.
UserResponse(user) ==
    [id |-> user.id, email |-> user.email, full_name |-> user.full_name,
     is_active |-> user.is_active, is_superuser |-> user.is_superuser]

LoginResponse(r) ==
    [access_token |-> r.access_token, token_type |-> r.token_type,
     user |-> UserResponse(r.user)]

RegisterPath == <<"/api", "/auth", "/register">>
LoginPath == <<"/api", "/auth", "/login">>
MePath == <<"/api", "/auth", "/me">>

(***************************************************************************)
(* Auth core                                                               *)
(***************************************************************************)
\* login reporting an unknown email with wording of its own.
login_DistinctNotFound(store, username, password, t) ==
    LET user == first(query_by_email(store, username))
    IN  IF user = None
        THEN Raised(HTTPException(401, "User not found"))
        ELSE IF ~verify_password(password, user.hashed_password)
        THEN Raised(HTTPException(401, "Incorrect email or password"))
        ELSE IF ~user.is_active
        THEN Raised(HTTPException(403, "Inactive user"))
        ELSE Returned([access_token |-> create_access_token([sub |-> user.email], <<>>, t),
                       token_type |-> "bearer",
                       user |-> user])

\* login consulting the active flag before the password.
login_ActiveFirst(store, username, password, t) ==
    LET user == first(query_by_email(store, username))
    IN  IF user = None
        THEN Raised(HTTPException(401, "Incorrect email or password"))
        ELSE IF ~user.is_active
        THEN Raised(HTTPException(403, "Inactive user"))
        ELSE IF ~verify_password(password, user.hashed_password)
        THEN Raised(HTTPException(401, "Incorrect email or password"))
        ELSE Returned([access_token |-> create_access_token([sub |-> user.email], <<>>, t),
                       token_type |-> "bearer",
                       user |-> user])

\* login without the active-flag check.
login_NoActiveCheck(store, username, password, t) ==
    LET user == first(query_by_email(store, username))
    IN  IF user = None
        THEN Raised(HTTPException(401, "Incorrect email or password"))
        ELSE IF ~verify_password(password, user.hashed_password)
        THEN Raised(HTTPException(401, "Incorrect email or password"))
        ELSE Returned([access_token |-> create_access_token([sub |-> user.email], <<>>, t),
                       token_type |-> "bearer",
                       user |-> user])

\* login, lines 175-209.
login(store, username, password, t) ==
    LET user == first(query_by_email(store, username))
    IN  IF user = None
        THEN Raised(HTTPException(401, "Incorrect email or password"))
        ELSE IF ~verify_password(password, user.hashed_password)
        THEN Raised(HTTPException(401, "Incorrect email or password"))
        ELSE IF ~user.is_active
        THEN Raised(HTTPException(403, "Inactive user"))
        ELSE Returned([access_token |-> create_access_token([sub |-> user.email], <<>>, t),
                       token_type |-> "bearer",
                       user |-> user])

\* The Authorization header: absent, or "Bearer <token>".
NoHeader == [present |-> FALSE]
Bearer(token) == [present |-> TRUE, token |-> token]

credentials_exception == HTTPException(401, "Could not validate credentials")

\* get_current_user answering 404 for a subject without a user record.
get_current_user_NotFound404(authorization, store, t) ==
    IF ~authorization.present
    THEN [raised |-> TRUE, exc |-> HTTPException(401, "Not authenticated"),
          state_user |-> None]
    ELSE LET d == decode_access_token(authorization.token, t)
         IN  IF d.raised
             THEN [raised |-> TRUE, exc |-> d.exc, state_user |-> None]
             ELSE IF d.data = None
             THEN [raised |-> TRUE, exc |-> credentials_exception, state_user |-> None]
             ELSE LET user == first(query_by_email(store, d.data.email))
                  IN  IF user = None
                      THEN [raised |-> TRUE, exc |-> HTTPException(404, "User not found"),
                            state_user |-> None]
                      ELSE [raised |-> FALSE, data |-> user, state_user |-> user]

\* get_current_user with wording of its own for a subject without a user.
get_current_user_DistinctNotFound(authorization, store, t) ==
    IF ~authorization.present
    THEN [raised |-> TRUE, exc |-> HTTPException(401, "Not authenticated"),
          state_user |-> None]
    ELSE LET d == decode_access_token(authorization.token, t)
         IN  IF d.raised
             THEN [raised |-> TRUE, exc |-> d.exc, state_user |-> None]
             ELSE IF d.data = None
             THEN [raised |-> TRUE, exc |-> credentials_exception, state_user |-> None]
             ELSE LET user == first(query_by_email(store, d.data.email))
                  IN  IF user = None
                      THEN [raised |-> TRUE, exc |-> HTTPException(401, "User not found"),
                            state_user |-> None]
                      ELSE [raised |-> FALSE, data |-> user, state_user |-> user]

\* get_current_user refusing a user whose active flag is off.
get_current_user_ActiveOnly(authorization, store, t) ==
    IF ~authorization.present
    THEN [raised |-> TRUE, exc |-> HTTPException(401, "Not authenticated"),
          state_user |-> None]
    ELSE LET d == decode_access_token(authorization.token, t)
         IN  IF d.raised
             THEN [raised |-> TRUE, exc |-> d.exc, state_user |-> None]
             ELSE IF d.data = None
             THEN [raised |-> TRUE, exc |-> credentials_exception, state_user |-> None]
             ELSE LET user == first(query_by_email(store, d.data.email))
                  IN  IF user = None
                      THEN [raised |-> TRUE, exc |-> credentials_exception,
                            state_user |-> None]
                      ELSE IF ~user.is_active
                      THEN [raised |-> TRUE, exc |-> HTTPException(403, "Inactive user"),
                            state_user |-> None]
                      ELSE [raised |-> FALSE, data |-> user, state_user |-> user]

\* oauth2_scheme, then get_current_user.  state_user is request.state.user
\* when the dependency has run.
get_current_user(authorization, store, t) ==
    IF ~authorization.present
    THEN [raised |-> TRUE, exc |-> HTTPException(401, "Not authenticated"),
          state_user |-> None]
    ELSE LET d == decode_access_token(authorization.token, t)
         IN  IF d.raised
             THEN [raised |-> TRUE, exc |-> d.exc, state_user |-> None]
             ELSE IF d.data = None
             THEN [raised |-> TRUE, exc |-> credentials_exception, state_user |-> None]
             ELSE LET user == first(query_by_email(store, d.data.email))
                  IN  IF user = None
                      THEN [raised |-> TRUE, exc |-> credentials_exception,
                            state_user |-> None]
                      ELSE [raised |-> FALSE, data |-> user, state_user |-> user]

\* The login route without its response model: the handler's return value
\* is serialised as it is.
login_endpoint_NoResponseModel(store, username, password, t) ==
    LET r == login(store, username, password, t)
    IN  IF r.raised
        THEN handle_exception(r.exc, LoginPath)
        ELSE [status |-> 200, body |-> r.data]

\* POST /auth/login as the client sees it: the handler's result through the
\* response model, or its exception through the registered handler.
login_endpoint(store, username, password, t) ==
    LET r == login(store, username, password, t)
    IN  IF r.raised
        THEN handle_exception(r.exc, LoginPath)
        ELSE [status |-> 200, body |-> LoginResponse(r.data)]

\* GET /auth/me as the client sees it.
read_current_user(authorization, store, t) ==
    LET r == get_current_user(authorization, store, t)
    IN  IF r.raised
        THEN handle_exception(r.exc, MePath)
        ELSE [status |-> 200, body |-> UserResponse(r.data)]

(***************************************************************************)
(* Tokens a client can present                                             *)
(***************************************************************************)
\* Claims passed to the codec by callers: a subject, no subject, or a subject
\* with a list-valued nbf.
DataShapes ==
    {[sub |-> e] : e \in Emails} \cup {[aud |-> "none"]}
        \cup {[sub |-> e, nbf |-> [list |-> <<1>>]] : e \in {"a@x.com"}}

\* Tokens made without the server's secret: signed under another secret, or
\* unsigned with alg "none".
Forged(t) ==
    {jwt_encode([sub |-> e, exp |-> t + ACCESS_TOKEN_EXPIRE_MINUTES, iat |-> t], k, ALGORITHM) :
        e \in Emails, k \in OtherKeys}
    \cup {[form |-> "jws", alg |-> "none",
           payload |-> [sub |-> e, exp |-> t + ACCESS_TOKEN_EXPIRE_MINUTES, iat |-> t],
           sig |-> [empty |-> TRUE]] : e \in Emails}

\* An issued token altered after issuance: another subject or a later expiry
\* under the old signature, or a corrupted signature.
Tampered(token) ==
    {[token EXCEPT !.payload = [@ EXCEPT !.sub = e]] :
        e \in {x \in Emails : "sub" \in DOMAIN token.payload /\ x # token.payload.sub}}
    \cup {[token EXCEPT !.payload = [@ EXCEPT !.exp = @ + 2 * ACCESS_TOKEN_EXPIRE_MINUTES]]}
    \cup {[token EXCEPT !.sig = [corrupted |-> TRUE]]}

Presentable(held, t) ==
    {Garbage} \cup Forged(t)
        \cup (IF held = None THEN {} ELSE {held.token} \cup Tampered(held.token))

(***************************************************************************)
(* Rate limiter (slowapi over limits: fixed window, in-memory storage)     *)
(***************************************************************************)
Minute == 1
Hour == 60 * Minute

RegisterPerMinute == 5
LoginPerMinute == 10
DefaultPerMinute == 100
DefaultPerHour == 1000

\* "5/minute" on register, "10/minute" on login, and the limiter's defaults.
register_limit == [amount |-> RegisterPerMinute, window |-> Minute]
login_limit == [amount |-> LoginPerMinute, window |-> Minute]
default_limits == <<[amount |-> DefaultPerMinute, window |-> Minute],
                    [amount |-> DefaultPerHour, window |-> Hour]>>

\* request.client of a request: None, or the peer's address.
Clients == {[host |-> a] : a \in RemoteAddrs}

\* slowapi.util.get_remote_address
get_remote_address(req) ==
    IF req.client = None THEN "127.0.0.1" ELSE req.client.host

\* The key taken from the remote address whoever the principal is.
get_client_identifier_AddressOnly(req) == "ip:" \o get_remote_address(req)

get_client_identifier(req) ==
    IF req.state_user # None
    THEN "user:" \o ToString(req.state_user.id)
    ELSE "ip:" \o get_remote_address(req)

\* MemoryStorage.get: the counter under a key, 0 once its window has expired.
storage_get(store, key, t) ==
    LET live == {e \in store : e.key = key /\ e.expiry > t}
    IN  IF live = {} THEN 0 ELSE (CHOOSE e \in live : TRUE).count

\* A counter whose increment is computed but never written back.
incr_LostUpdate(store, key, expiry, t) ==
    LET count == storage_get(store, key, t) + 1
    IN  [count |-> count,
         store |-> IF count = 1
                   THEN {e \in store : e.key # key}
                            \cup {[key |-> key, count |-> count, expiry |-> t + expiry]}
                   ELSE store]

\* MemoryStorage.incr: the window starts with the first hit under the key and
\* lasts `expiry`; later hits in the window only count.
incr(store, key, expiry, t) ==
    LET count == storage_get(store, key, t) + 1
        until == IF count = 1 THEN t + expiry
                 ELSE (CHOOSE e \in store : e.key = key /\ e.expiry > t).expiry
    IN  [count |-> count,
         store |-> {e \in store : e.key # key}
                       \cup {[key |-> key, count |-> count, expiry |-> until]}]

\* A limit of N that lets N - 1 requests through.
hit_OffByOne(store, limit, identifier, scope, t) ==
    LET r == incr(store, <<identifier, scope, limit.amount, limit.window>>,
                  limit.window, t)
    IN  [ok |-> r.count < limit.amount, store |-> r.store]

\* FixedWindowRateLimiter.hit: count the request, then compare.
hit(store, limit, identifier, scope, t) ==
    LET r == incr(store, <<identifier, scope, limit.amount, limit.window>>,
                  limit.window, t)
    IN  [ok |-> r.count <= limit.amount, store |-> r.store]

\* Limiter evaluating a route's limits in order, stopping at the first that
\* is exceeded.
RECURSIVE evaluate_limits(_, _, _, _, _)
evaluate_limits(store, limits, identifier, scope, t) ==
    IF limits = <<>>
    THEN [exceeded |-> FALSE, store |-> store]
    ELSE LET r == hit(store, Head(limits), identifier, scope, t)
         IN  IF ~r.ok
             THEN [exceeded |-> TRUE, limit |-> Head(limits), store |-> r.store]
             ELSE evaluate_limits(r.store, Tail(limits), identifier, scope, t)

\* slowapi's handler for RateLimitExceeded.
rate_limit_exceeded_handler(limit) ==
    [status |-> 429,
     body |-> [error |-> <<"Rate limit exceeded", limit.amount, limit.window>>]]

\* The request as the limiter sees it.
Request(client, path, state_user) ==
    [client |-> client, path |-> path, state_user |-> state_user]

\* Who sent a request: the resolved principal's id, or None.
Principal(req) ==
    IF req.state_user = None THEN None ELSE [id |-> req.state_user.id]

\* Requests sent, and requests let through to the handler, in the current
\* minute by client, path and principal.
Sent(tr, client, path, principal) ==
    LET s == {e \in tr : e.client = client /\ e.path = path /\ e.principal = principal}
    IN  IF s = {} THEN 0 ELSE (CHOOSE e \in s : TRUE).sent

Admitted(tr, client, path, principal) ==
    LET s == {e \in tr : e.client = client /\ e.path = path /\ e.principal = principal}
    IN  IF s = {} THEN 0 ELSE (CHOOSE e \in s : TRUE).admitted

Count(tr, req, admitted) ==
    LET c == req.client
        q == Principal(req)
    IN  {e \in tr : ~(e.client = c /\ e.path = req.path /\ e.principal = q)}
            \cup {[client |-> c, path |-> req.path, principal |-> q,
                   sent |-> Sent(tr, c, req.path, q) + 1,
                   admitted |-> Admitted(tr, c, req.path, q)
                                    + (IF admitted THEN 1 ELSE 0)]}

(***************************************************************************)
(* State machine                                                           *)
(***************************************************************************)
Init ==
    /\ users = {}
    /\ nextId = 1
    /\ pending = {}
    /\ now = 0
    /\ bearer = None
    /\ last = [op |-> "init"]
    /\ resp = None
    /\ storage = {}
    /\ traffic = {}
    /\ request = None
    /\ inflight = {}

\* register going on to the insert without looking the email up.
RegisterCheck_NoLookup(email, password, full_name) ==
    /\ Cardinality(pending) < MaxPending
    /\ pending' = pending \cup
           {[email |-> email, password |-> password, full_name |-> full_name]}
    /\ resp' = None
    /\ last' = [op |-> "register_pending", email |-> email]
    /\ UNCHANGED <<users, nextId, now, bearer>>

\* register, lines 112-121: the existence check.
RegisterCheck(email, password, full_name) ==
    LET existing_user == first(query_by_email(users, email))
    IN  /\ IF existing_user # None
           THEN /\ resp' = handle_exception(
                              HTTPException(400, "Email already registered"), RegisterPath)
                /\ pending' = pending
                /\ last' = [op |-> "register", stage |-> "check", email |-> email,
                            password |-> password, store |-> users]
           ELSE /\ Cardinality(pending) < MaxPending
                /\ pending' = pending \cup
                       {[email |-> email, password |-> password, full_name |-> full_name]}
                /\ resp' = None
                /\ last' = [op |-> "register_pending", email |-> email]
        /\ UNCHANGED <<users, nextId, now, bearer>>

\* register creating the user inactive, to be activated later.
RegisterCommit_Inactive(user_in, salt) ==
    LET db_user == [id |-> nextId,
                    email |-> user_in.email,
                    hashed_password |-> get_password_hash(user_in.password, salt),
                    full_name |-> user_in.full_name,
                    is_active |-> FALSE,
                    is_superuser |-> FALSE]
        r == db_commit(users, db_user)
    IN  /\ user_in \in pending
        /\ pending' = pending \ {user_in}
        /\ IF r.raised
           THEN /\ users' = users
                /\ nextId' = nextId
                /\ resp' = handle_exception(r.exc, RegisterPath)
           ELSE /\ users' = r.data
                /\ nextId' = nextId + 1
                /\ resp' = [status |-> 201, body |-> UserResponse(db_user)]
        /\ last' = [op |-> "register", stage |-> "commit", email |-> user_in.email,
                    password |-> user_in.password, store |-> users]
        /\ UNCHANGED <<now, bearer>>

\* register, lines 123-138: hash, add, commit, refresh.
RegisterCommit(user_in, salt) ==
    LET db_user == [id |-> nextId,
                    email |-> user_in.email,
                    hashed_password |-> get_password_hash(user_in.password, salt),
                    full_name |-> user_in.full_name,
                    is_active |-> TRUE,
                    is_superuser |-> FALSE]
        r == db_commit(users, db_user)
    IN  /\ user_in \in pending
        /\ pending' = pending \ {user_in}
        /\ IF r.raised
           THEN /\ users' = users
                /\ nextId' = nextId
                /\ resp' = handle_exception(r.exc, RegisterPath)
           ELSE /\ users' = r.data
                /\ nextId' = nextId + 1
                /\ resp' = [status |-> 201, body |-> UserResponse(db_user)]
        /\ last' = [op |-> "register", stage |-> "commit", email |-> user_in.email,
                    password |-> user_in.password, store |-> users]
        /\ UNCHANGED <<now, bearer>>

\* POST /auth/login; the client keeps the token it is given.
Login(username, password) ==
    LET r == login_endpoint(users, username, password, now)
    IN  /\ resp' = r
        /\ bearer' = IF "access_token" \in DOMAIN r.body
                     THEN [token |-> r.body.access_token, kind |-> "access",
                           at |-> now, delta |-> <<>>]
                     ELSE bearer
        /\ last' = [op |-> "login", email |-> username, password |-> password]
        /\ UNCHANGED <<users, nextId, pending, now>>

\* GET /auth/me
ReadCurrentUser(authorization) ==
    /\ resp' = read_current_user(authorization, users, now)
    /\ last' = [op |-> "me", authorization |-> authorization,
                state_user |-> get_current_user(authorization, users, now).state_user]
    /\ UNCHANGED <<users, nextId, pending, now, bearer>>

\* A direct call of create_access_token, as the test fixtures make.
IssueAccess(data, expires_delta) ==
    /\ bearer' = [token |-> create_access_token(data, expires_delta, now),
                  kind |-> "access", at |-> now, delta |-> expires_delta]
    /\ last' = [op |-> "create_access_token"]
    /\ resp' = None
    /\ UNCHANGED <<users, nextId, pending, now>>

\* A direct call of create_refresh_token.
IssueRefresh(data, expires_delta) ==
    /\ bearer' = [token |-> create_refresh_token(data, expires_delta, now),
                  kind |-> "refresh", at |-> now, delta |-> expires_delta]
    /\ last' = [op |-> "create_refresh_token"]
    /\ resp' = None
    /\ UNCHANGED <<users, nextId, pending, now>>

\* A profile or role-management flow changes a user's active flag.
SetActive(user, flag) ==
    /\ user \in users
    /\ user.is_active # flag
    /\ users' = (users \ {user}) \cup {[user EXCEPT !.is_active = flag]}
    /\ last' = [op |-> "set_active"]
    /\ resp' = None
    /\ UNCHANGED <<nextId, pending, now, bearer>>

\* datetime.utcnow() moves on.
Tick ==
    /\ now + TickStep <= MaxTime
    /\ now' = now + TickStep
    /\ last' = [op |-> "tick"]
    /\ resp' = None
    /\ UNCHANGED <<users, nextId, pending, bearer>>

\* A direct call of decode_access_token.
Decode(token) ==
    /\ resp' = decode_access_token(token, now)
    /\ last' = [op |-> "decode_access_token", token |-> token]
    /\ UNCHANGED <<users, nextId, pending, now, bearer>>

\* The state of the limiter, the traffic it has seen and the requests in
\* flight.
limiterVars == <<storage, traffic, request, inflight>>

\* POST /auth/register through limiter.limit("5/minute"): the limit is
\* checked when the endpoint is called, before its body.
RegisterRequest(client, email, password, full_name) ==
    LET req == Request(client, RegisterPath, None)
        c == evaluate_limits(storage, <<register_limit>>, get_client_identifier(req),
                             RegisterPath, now)
    IN  /\ request' = req
        /\ inflight' = inflight
        /\ storage' = c.store
        /\ traffic' = Count(traffic, req, ~c.exceeded)
        /\ IF c.exceeded
           THEN /\ resp' = rate_limit_exceeded_handler(c.limit)
                /\ last' = [op |-> "rate_limited", email |-> email, password |-> password]
                /\ UNCHANGED <<users, nextId, pending, now, bearer>>
           ELSE RegisterCheck(email, password, full_name)

\* login whose limit is enforced on the response only: the handler has run
\* by the time the request is refused.
LoginRequest_HandlerFirst(client, username, password) ==
    LET req == Request(client, LoginPath, None)
        c == evaluate_limits(storage, <<login_limit>>, get_client_identifier(req),
                             LoginPath, now)
        r == login_endpoint(users, username, password, now)
    IN  /\ request' = req
        /\ inflight' = inflight
        /\ storage' = c.store
        /\ traffic' = Count(traffic, req, ~c.exceeded)
        /\ resp' = IF c.exceeded THEN rate_limit_exceeded_handler(c.limit) ELSE r
        /\ bearer' = IF "access_token" \in DOMAIN r.body
                     THEN [token |-> r.body.access_token, kind |-> "access",
                           at |-> now, delta |-> <<>>]
                     ELSE bearer
        /\ last' = IF c.exceeded
                   THEN [op |-> "rate_limited", email |-> username, password |-> password]
                   ELSE [op |-> "login", email |-> username, password |-> password]
        /\ UNCHANGED <<users, nextId, pending, now>>

\* login whose limit is counted per submitted email instead of per caller.
LoginRequest_KeyedByEmail(client, username, password) ==
    LET req == Request(client, LoginPath, None)
        c == evaluate_limits(storage, <<login_limit>>, "email:" \o username,
                             LoginPath, now)
    IN  /\ request' = req
        /\ inflight' = inflight
        /\ storage' = c.store
        /\ traffic' = Count(traffic, req, ~c.exceeded)
        /\ IF c.exceeded
           THEN /\ resp' = rate_limit_exceeded_handler(c.limit)
                /\ last' = [op |-> "rate_limited", email |-> username,
                            password |-> password]
                /\ UNCHANGED <<users, nextId, pending, now, bearer>>
           ELSE Login(username, password)

\* POST /auth/login through limiter.limit("10/minute").
LoginRequest(client, username, password) ==
    LET req == Request(client, LoginPath, None)
        c == evaluate_limits(storage, <<login_limit>>, get_client_identifier(req),
                             LoginPath, now)
    IN  /\ request' = req
        /\ inflight' = inflight
        /\ storage' = c.store
        /\ traffic' = Count(traffic, req, ~c.exceeded)
        /\ IF c.exceeded
           THEN /\ resp' = rate_limit_exceeded_handler(c.limit)
                /\ last' = [op |-> "rate_limited", email |-> username,
                            password |-> password]
                /\ UNCHANGED <<users, nextId, pending, now, bearer>>
           ELSE Login(username, password)

\* GET /auth/me: the route carries no limiter.limit and the application
\* installs no SlowAPIMiddleware, so no limit is evaluated for it.
MeRequest(client, authorization) ==
    LET req == Request(client, MePath,
                       get_current_user(authorization, users, now).state_user)
    IN  /\ request' = req
        /\ inflight' = inflight
        /\ storage' = storage
        /\ traffic' = Count(traffic, req, TRUE)
        /\ ReadCurrentUser(authorization)

\* The application's route table: the auth router, whose prefix is "/auth",
\* is included under the prefix "/api".
Routes == {RegisterPath, LoginPath, MePath}

\* The route a URL path is dispatched to, <<>> when no route matches.
route(url) == IF url \in Routes THEN url ELSE <<>>

\* Starlette answers a path without a route with HTTPException(404).
NotFound(client, url, sent) ==
    /\ request' = Request(client, url, None)
    /\ resp' = http_exception_handler(HTTPException(404, "Not Found"), url)
    /\ last' = [op |-> "not_found", sent |-> sent]
    /\ UNCHANGED <<users, nextId, pending, now, bearer, storage, traffic, inflight>>

\* A request by URL: dispatched to its route, or answered 404.
PostRegister(url, client, email, password, full_name) ==
    IF route(url) = RegisterPath
    THEN RegisterRequest(client, email, password, full_name)
    ELSE NotFound(client, url, [email |-> email, password |-> password])

PostLogin(url, client, username, password) ==
    IF route(url) = LoginPath
    THEN LoginRequest(client, username, password)
    ELSE NotFound(client, url, [email |-> username, password |-> password])

GetMe(url, client, authorization) ==
    IF route(url) = MePath
    THEN MeRequest(client, authorization)
    ELSE NotFound(client, url, [authorization |-> authorization])

\* A direct call of get_client_identifier.
Identify(req) ==
    /\ request' = req
    /\ resp' = [key |-> get_client_identifier(req)]
    /\ last' = [op |-> "get_client_identifier"]
    /\ UNCHANGED <<users, nextId, pending, now, bearer, storage, traffic, inflight>>

\* A minute passes: windows that have run out are dropped from the storage.
TickMinute ==
    /\ now + Minute <= MaxMinutes * Minute
    /\ now' = now + Minute
    /\ storage' = {e \in storage : e.expiry > now'}
    /\ traffic' = {}
    /\ request' = None
    /\ last' = [op |-> "tick"]
    /\ resp' = None
    /\ UNCHANGED <<users, nextId, pending, bearer, inflight>>

\* A direct call of get_password_hash.
HashCall(password, salt) ==
    /\ resp' = [hash |-> get_password_hash(password, salt)]
    /\ last' = [op |-> "get_password_hash", password |-> password, salt |-> salt]
    /\ UNCHANGED <<users, nextId, pending, now, bearer>>

\* A direct call of verify_password.
VerifyCall(plain_password, hashed_password) ==
    /\ resp' = [result |-> verify_password(plain_password, hashed_password)]
    /\ last' = [op |-> "verify_password", plain |-> plain_password,
                hashed |-> hashed_password]
    /\ UNCHANGED <<users, nextId, pending, now, bearer>>

\* A user row is written with a password hash from elsewhere, as the test
\* fixtures write rows directly.
SetHash(user, hashed_password) ==
    /\ user \in users
    /\ user.hashed_password # hashed_password
    /\ users' = (users \ {user}) \cup {[user EXCEPT !.hashed_password = hashed_password]}
    /\ last' = [op |-> "set_hash"]
    /\ resp' = None
    /\ UNCHANGED <<nextId, pending, now, bearer>>

\* register whose existence query raises: nothing in the handler catches it.
RegisterFailure(email, password, full_name, exc) ==
    /\ resp' = handle_exception(exc, RegisterPath)
    /\ last' = [op |-> "failure", path |-> RegisterPath, exc |-> exc]
    /\ UNCHANGED <<users, nextId, pending, now, bearer>>

\* login whose user query raises.
LoginFailure(username, password, exc) ==
    /\ resp' = handle_exception(exc, LoginPath)
    /\ last' = [op |-> "failure", path |-> LoginPath, exc |-> exc]
    /\ UNCHANGED <<users, nextId, pending, now, bearer>>

\* get_current_user whose user query raises; the query is reached when the
\* token has decoded.
MeFailure(authorization, exc) ==
    /\ authorization.present
    /\ LET d == decode_access_token(authorization.token, now)
       IN  ~d.raised /\ d.data # None
    /\ resp' = handle_exception(exc, MePath)
    /\ last' = [op |-> "failure", path |-> MePath, exc |-> exc]
    /\ UNCHANGED <<users, nextId, pending, now, bearer>>

\* A request to GET /auth/me arrives; its context (request.state) is empty.
Arrive(id, client, authorization) ==
    /\ \A r \in inflight : r.id # id
    /\ inflight' = inflight \cup {[id |-> id, client |-> client,
                                   authorization |-> authorization,
                                   stage |-> "resolving",
                                   current_user |-> None, state_user |-> None]}
    /\ last' = [op |-> "arrive", id |-> id]
    /\ resp' = None
    /\ UNCHANGED <<users, nextId, pending, now, bearer, storage, traffic, request>>

\* get_current_user publishing the user on a context all requests share.
Resolve_SharedContext(r) ==
    LET g == get_current_user(r.authorization, users, now)
    IN  /\ r \in inflight
        /\ r.stage = "resolving"
        /\ inflight' = {IF q = r
                        THEN [q EXCEPT !.stage = IF g.raised THEN "failed" ELSE "handling",
                                       !.current_user = IF g.raised THEN None ELSE g.data,
                                       !.state_user = g.state_user]
                        ELSE IF g.raised THEN q
                        ELSE [q EXCEPT !.state_user = g.state_user] : q \in inflight}
        /\ resp' = IF g.raised THEN handle_exception(g.exc, MePath) ELSE None
        /\ last' = [op |-> "resolve", id |-> r.id]
        /\ UNCHANGED <<users, nextId, pending, now, bearer, storage, traffic, request>>

\* The dependency get_current_user runs for a request in flight: on success
\* the user is put on that request's state and handed to the route handler,
\* on failure the exception ends the request.
Resolve(r) ==
    LET g == get_current_user(r.authorization, users, now)
    IN  /\ r \in inflight
        /\ r.stage = "resolving"
        /\ inflight' = (inflight \ {r}) \cup
              {[r EXCEPT !.stage = IF g.raised THEN "failed" ELSE "handling",
                         !.current_user = IF g.raised THEN None ELSE g.data,
                         !.state_user = g.state_user]}
        /\ resp' = IF g.raised THEN handle_exception(g.exc, MePath) ELSE None
        /\ last' = [op |-> "resolve", id |-> r.id]
        /\ UNCHANGED <<users, nextId, pending, now, bearer, storage, traffic, request>>

\* read_current_user runs for a resolved request; the rate-limit key of the
\* request is what get_client_identifier reads from its context.
Handle(r) ==
    /\ r \in inflight
    /\ r.stage = "handling"
    /\ inflight' = inflight \ {r}
    /\ request' = Request(r.client, MePath, r.state_user)
    /\ resp' = [status |-> 200, body |-> UserResponse(r.current_user)]
    /\ last' = [op |-> "me_handled", id |-> r.id, authorization |-> r.authorization,
                key |-> get_client_identifier(request')]
    /\ UNCHANGED <<users, nextId, pending, now, bearer, storage, traffic>>

\* A request whose resolution failed is over.
Depart(r) ==
    /\ r \in inflight
    /\ r.stage = "failed"
    /\ inflight' = inflight \ {r}
    /\ last' = [op |-> "depart", id |-> r.id]
    /\ resp' = None
    /\ UNCHANGED <<users, nextId, pending, now, bearer, storage, traffic, request>>

\* Claims that name a subject.
SubjectData == {[sub |-> e] : e \in Emails}

\* The HTTP surface of the auth router.
Next ==
    \/ \E e \in Emails, p \in Passwords, n \in FullNames : RegisterCheck(e, p, n) /\ UNCHANGED limiterVars
    \/ \E u \in pending, s \in Salts : RegisterCommit(u, s) /\ UNCHANGED limiterVars
    \/ \E e \in Emails, p \in Passwords : Login(e, p) /\ UNCHANGED limiterVars
    \/ \E a \in {NoHeader} \cup {Bearer(k) : k \in Presentable(bearer, now)} :
          ReadCurrentUser(a) /\ UNCHANGED limiterVars
    \/ \E u \in users, f \in BOOLEAN : SetActive(u, f) /\ UNCHANGED limiterVars
    \/ Tick /\ UNCHANGED limiterVars

Spec == Init /\ [][Next]_vars

\* The token codec on its own: tokens of every shape and lifetime are issued
\* and decoded as the clock advances.
NextCodec ==
    \/ \E d \in DataShapes, x \in Deltas : IssueAccess(d, x) /\ UNCHANGED limiterVars
    \/ \E d \in DataShapes, x \in Deltas : IssueRefresh(d, x) /\ UNCHANGED limiterVars
    \/ \E k \in Presentable(bearer, now) : Decode(k) /\ UNCHANGED limiterVars
    \/ Tick /\ UNCHANGED limiterVars

SpecCodec == Init /\ [][NextCodec]_vars

\* Current-principal resolution over registered users and directly issued
\* tokens.
NextMe ==
    \/ \E e \in Emails, p \in {"password123"}, n \in FullNames : RegisterCheck(e, p, n) /\ UNCHANGED limiterVars
    \/ \E u \in pending, s \in Salts : RegisterCommit(u, s) /\ UNCHANGED limiterVars
    \/ \E d \in SubjectData, x \in {<<>>, <<-TickStep>>} : IssueAccess(d, x) /\ UNCHANGED limiterVars
    \/ \E d \in SubjectData, x \in {<<>>} : IssueRefresh(d, x) /\ UNCHANGED limiterVars
    \/ \E a \in {NoHeader} \cup {Bearer(k) : k \in Presentable(bearer, now)} :
          ReadCurrentUser(a) /\ UNCHANGED limiterVars
    \/ Tick /\ UNCHANGED limiterVars

SpecMe == Init /\ [][NextMe]_vars

\* register and login behind their rate limits: two clients, one account.
NextLimit ==
    \/ \E c \in {[host |-> "10.0.0.1"]}, e \in {"a@x.com"}, p \in {"password123"},
             n \in FullNames :
          /\ Sent(traffic, c, RegisterPath, None) < RegisterPerMinute + MaxOver
          /\ RegisterRequest(c, e, p, n)
    \/ \E u \in pending, s \in {"salt1"} : RegisterCommit(u, s) /\ UNCHANGED limiterVars
    \/ \E c \in Clients, e \in Emails, p \in Passwords :
          /\ Sent(traffic, c, LoginPath, None) < LoginPerMinute + MaxOver
          /\ LoginRequest(c, e, p)
    \/ TickMinute

SpecLimit == Init /\ [][NextLimit]_vars

\* GET /auth/me under load: one registration, one login, then requests to
\* /auth/me, anonymous ones in great number from one address and
\* authenticated ones from every address.
NextDefault ==
    \/ \E c \in {[host |-> "10.0.0.1"]}, e \in {"a@x.com"}, p \in {"password123"},
             n \in FullNames :
          /\ users = {}
          /\ pending = {}
          /\ RegisterRequest(c, e, p, n)
    \/ \E u \in pending, s \in {"salt1"} : RegisterCommit(u, s) /\ UNCHANGED limiterVars
    \/ \E c \in {[host |-> "10.0.0.1"]}, e \in {"a@x.com"}, p \in {"password123"} :
          /\ bearer = None
          /\ Sent(traffic, c, LoginPath, None) < MaxOver
          /\ LoginRequest(c, e, p)
    \/ \E c \in {[host |-> "10.0.0.1"]} :
          /\ Sent(traffic, c, MePath, None) < DefaultPerMinute + MaxOver
          /\ MeRequest(c, NoHeader)
    \/ \E c \in Clients :
          /\ bearer # None
          /\ \A q \in {[id |-> u.id] : u \in users} :
                Sent(traffic, c, MePath, q) < MaxOver + 1
          /\ MeRequest(c, Bearer(bearer.token))
    \/ TickMinute

SpecDefault == Init /\ [][NextDefault]_vars

\* The rate-limit key function on its own, over the requests that registered
\* users and anonymous clients can make.
Requests ==
    {Request(c, MePath, u) : c \in Clients \cup {None}, u \in users \cup {None}}

NextKey ==
    \/ \E e \in Emails, p \in {"password123"}, n \in FullNames :
          RegisterCheck(e, p, n) /\ UNCHANGED limiterVars
    \/ \E u \in pending, s \in Salts : RegisterCommit(u, s) /\ UNCHANGED limiterVars
    \/ \E r \in Requests : Identify(r)

SpecKey == Init /\ [][NextKey]_vars

\* Requests by URL, to the paths the tests use and to the paths under
\* "/api": one client registers, logs in and asks for its principal.
NextApp ==
    \/ \E url \in {RegisterPath, <<"/auth", "/register">>},
          c \in {[host |-> "10.0.0.1"]}, e \in Emails, p \in {"password123"},
          n \in FullNames :
          /\ Sent(traffic, c, RegisterPath, None) < MaxOver + 1
          /\ PostRegister(url, c, e, p, n)
    \/ \E u \in pending, s \in {"salt1"} : RegisterCommit(u, s) /\ UNCHANGED limiterVars
    \/ \E url \in {LoginPath, <<"/auth", "/login">>},
          c \in {[host |-> "10.0.0.1"]}, e \in Emails, p \in Passwords :
          /\ Sent(traffic, c, LoginPath, None) < MaxOver + 1
          /\ PostLogin(url, c, e, p)
    \/ \E url \in {MePath, <<"/auth", "/me">>}, c \in {[host |-> "10.0.0.1"]},
          a \in {NoHeader} \cup {Bearer(k) : k \in Presentable(bearer, now)} :
          /\ \A q \in {None} \cup {[id |-> u.id] : u \in users} :
                Sent(traffic, c, MePath, q) < MaxOver + 1
          /\ GetMe(url, c, a)
    \/ TickMinute

SpecApp == Init /\ [][NextApp]_vars

\* The password hasher: direct calls, and register and login over short and
\* long passwords and over rows whose stored hash is no bcrypt hash.
AllHashes ==
    {get_password_hash(p, s) : p \in HashPasswords, s \in Salts} \cup MalformedHashes

NextHash ==
    \/ \E p \in HashPasswords, s \in Salts : HashCall(p, s) /\ UNCHANGED limiterVars
    \/ \E p \in HashPasswords, h \in AllHashes : VerifyCall(p, h) /\ UNCHANGED limiterVars
    \/ \E e \in {"a@x.com"}, p \in HashPasswords, n \in FullNames :
          RegisterCheck(e, p, n) /\ UNCHANGED limiterVars
    \/ \E u \in pending, s \in {"salt1"} : RegisterCommit(u, s) /\ UNCHANGED limiterVars
    \/ \E u \in users, h \in MalformedHashes : SetHash(u, h) /\ UNCHANGED limiterVars
    \/ \E e \in {"a@x.com"}, p \in HashPasswords : Login(e, p) /\ UNCHANGED limiterVars

SpecHash == Init /\ [][NextHash]_vars

\* Store failures and unexpected exceptions in register, login and
\* principal resolution, next to registrations that work.
NextFault ==
    \/ \E e \in Emails, p \in {"password123"}, n \in FullNames :
          RegisterCheck(e, p, n) /\ UNCHANGED limiterVars
    \/ \E u \in pending, s \in {"salt1"} : RegisterCommit(u, s) /\ UNCHANGED limiterVars
    \/ \E d \in SubjectData, x \in {<<>>} : IssueAccess(d, x) /\ UNCHANGED limiterVars
    \/ \E e \in Emails, p \in {"password123"}, n \in FullNames,
          x \in StoreFailures \cup Unexpected :
          RegisterFailure(e, p, n, x) /\ UNCHANGED limiterVars
    \/ \E e \in Emails, p \in {"password123"}, x \in StoreFailures \cup Unexpected :
          LoginFailure(e, p, x) /\ UNCHANGED limiterVars
    \/ \E a \in {Bearer(k) : k \in Presentable(bearer, now)},
          x \in StoreFailures \cup Unexpected :
          MeFailure(a, x) /\ UNCHANGED limiterVars

SpecFault == Init /\ [][NextFault]_vars

\* Concurrent requests to GET /auth/me: each is resolved and handled in
\* steps of its own, interleaved with the others.
LoginTokens == {create_access_token([sub |-> e], <<>>, 0) : e \in Emails}

NextScope ==
    \/ \E e \in Emails, p \in {"password123"}, n \in FullNames :
          RegisterCheck(e, p, n) /\ UNCHANGED limiterVars
    \/ \E u \in pending, s \in {"salt1"} :
          RegisterCommit(u, s) /\ UNCHANGED limiterVars
    \/ \E i \in 1..MaxInflight, c \in Clients,
          a \in {NoHeader} \cup {Bearer(k) : k \in LoginTokens} : Arrive(i, c, a)
    \/ \E r \in inflight : Resolve(r)
    \/ \E r \in inflight : Handle(r)
    \/ \E r \in inflight : Depart(r)

SpecScope == Init /\ [][NextScope]_vars

(***************************************************************************)
(* Properties                                                              *)
(***************************************************************************)
\* The stored user with this email, if any, does not have this password.
WrongPassword(store, email, password) ==
    \E u \in store : u.email = email /\ ~verify_password(password, u.hashed_password)

CorrectPassword(store, email, password) ==
    \E u \in store : u.email = email /\ verify_password(password, u.hashed_password)

UnknownEmail(store, email) == \A u \in store : u.email # email

InvalidCredentialsReply ==
    [status |-> 401,
     body |-> [error |-> <<"HTTP", 401>>, message |-> "Incorrect email or password",
               details |-> None, path |-> LoginPath]]

\* C1: a login with an unknown email and a login with a known email and a
\* wrong password get one and the same response, status 401 with the same
\* message: the login just answered is that response in either case, and in
\* every reachable store any two such logins answer alike.
C1_LoginFailuresIndistinguishable ==
    /\ (last.op = "login"
          /\ (UnknownEmail(users, last.email)
                \/ WrongPassword(users, last.email, last.password)))
       => resp = InvalidCredentialsReply
    /\ \A e1 \in Emails, e2 \in Emails, p1 \in Passwords, p2 \in Passwords :
          (UnknownEmail(users, e1) /\ WrongPassword(users, e2, p2))
          => /\ login_endpoint(users, e1, p1, now) = login_endpoint(users, e2, p2, now)
             /\ login_endpoint(users, e1, p1, now).status = 401

\* A wrong-password login was just answered while another email is unknown.
C1_Witness ==
    /\ last.op = "login"
    /\ WrongPassword(users, last.email, last.password)
    /\ \E e \in Emails : UnknownEmail(users, e)
    /\ resp.status = 401

\* C2: login answers 403 "Inactive user" exactly when the user exists, the
\* password verifies and the active flag is false; an inactive user with a
\* wrong password gets 401.
C2_InactiveOnlyAfterPassword ==
    last.op = "login" =>
        /\ resp.status = 403
           <=> \E u \in users : /\ u.email = last.email
                                /\ verify_password(last.password, u.hashed_password)
                                /\ ~u.is_active
        /\ resp.status = 403 => resp.body.message = "Inactive user"
        /\ (\E u \in users : /\ u.email = last.email
                             /\ ~verify_password(last.password, u.hashed_password)
                             /\ ~u.is_active)
           => resp.status = 401

\* An inactive user logged in with the right password and got 403.
C2_Witness ==
    /\ last.op = "login"
    /\ \E u \in users : u.email = last.email /\ ~u.is_active
    /\ CorrectPassword(users, last.email, last.password)
    /\ resp.status = 403

\* C3: a login response carries an access token only when the user exists,
\* the password verified and the user is active; the token is then signed by
\* the server with the user's email as subject, and token_type is "bearer".
\* In every other case the response is a failure without a token.
C3_TokenOnlyForActiveVerifiedUser ==
    last.op = "login" =>
        LET ok == \E u \in users : /\ u.email = last.email
                                   /\ verify_password(last.password, u.hashed_password)
                                   /\ u.is_active
        IN  /\ ok => /\ resp.status = 200
                     /\ resp.body.token_type = "bearer"
                     /\ resp.body.access_token.payload.sub = last.email
                     /\ resp.body.access_token.sig
                            = Sign(SECRET_KEY, ALGORITHM, resp.body.access_token.payload)
                     /\ resp.body.user.email = last.email
                     /\ bearer.token = resp.body.access_token
            /\ ~ok => /\ resp.status \in {401, 403}
                      /\ "access_token" \notin DOMAIN resp.body

\* A login succeeded and handed out a token.
C3_Witness ==
    /\ last.op = "login"
    /\ resp.status = 200
    /\ "access_token" \in DOMAIN resp.body

\* C10: a registration whose email is already in the store is answered 400
\* "Email already registered" and leaves the store as it was; a registration
\* goes on to the insert only when the email was absent.
C10_DuplicateRegistrationRejected ==
    /\ (last.op = "register" /\ last.stage = "check")
       => /\ ~UnknownEmail(last.store, last.email)
          /\ resp.status = 400
          /\ resp.body.message = "Email already registered"
          /\ users = last.store
    /\ last.op = "register_pending" => UnknownEmail(users, last.email)

\* A registration for a stored email, with another password, was rejected.
C10_Witness ==
    /\ last.op = "register"
    /\ last.stage = "check"
    /\ resp.status = 400
    /\ WrongPassword(users, last.email, last.password)

\* The token is a JWS under HS256 whose MAC is the server's over its payload.
ServerSigned(token) ==
    /\ token.form = "jws"
    /\ token.alg = ALGORITHM
    /\ token.sig = Sign(SECRET_KEY, ALGORITHM, token.payload)

Unexpired(token, t) == "exp" \notin DOMAIN token.payload \/ token.payload.exp >= t

HasSubject(token) == "sub" \in DOMAIN token.payload

\* The header carries a server-signed, unexpired token naming a stored user.
Resolvable(authorization, store, t) ==
    /\ authorization.present
    /\ ServerSigned(authorization.token)
    /\ Unexpired(authorization.token, t)
    /\ HasSubject(authorization.token)
    /\ ~UnknownEmail(store, authorization.token.payload.sub)

UnauthorizedReply ==
    [status |-> 401,
     body |-> [error |-> <<"HTTP", 401>>, message |-> "Could not validate credentials",
               details |-> None, path |-> MePath]]

\* C4: GET /auth/me answers 401 and leaves request.state.user unset when the
\* header is missing, the token does not decode, or its subject has no user
\* record; it answers 200, with that user, only when the token decodes and
\* the subject's user exists.
C4_MeStatus ==
    last.op = "me" =>
        IF Resolvable(last.authorization, users, now)
        THEN /\ resp.status = 200
             /\ resp.body.email = last.authorization.token.payload.sub
             /\ last.state_user # None
             /\ last.state_user.email = resp.body.email
        ELSE /\ resp.status = 401
             /\ last.state_user = None

\* A server-signed unexpired token for an email without a user got 401.
C4_Witness ==
    /\ last.op = "me"
    /\ last.authorization.present
    /\ ServerSigned(last.authorization.token)
    /\ Unexpired(last.authorization.token, now)
    /\ HasSubject(last.authorization.token)
    /\ UnknownEmail(users, last.authorization.token.payload.sub)
    /\ users # {}
    /\ resp.status = 401

\* C5: whatever makes a presented token unusable (malformed, forged, altered,
\* expired, or naming a user that does not exist), the response is one and
\* the same 401 "Could not validate credentials".
C5_UnauthorizedUniform ==
    /\ (last.op = "me" /\ last.authorization.present
          /\ ~Resolvable(last.authorization, users, now))
       => resp = UnauthorizedReply
    /\ \A k \in Presentable(bearer, now) :
          ~Resolvable(Bearer(k), users, now)
          => read_current_user(Bearer(k), users, now) = UnauthorizedReply

\* A token issued with the default lifetime was presented after it expired.
C5_Witness ==
    /\ last.op = "me"
    /\ last.authorization.present
    /\ bearer # None
    /\ bearer.kind = "access"
    /\ bearer.delta = <<>>
    /\ last.authorization.token = bearer.token
    /\ bearer.token.payload.exp < now
    /\ ~UnknownEmail(users, bearer.token.payload.sub)
    /\ resp = UnauthorizedReply

\* The lifetime a token was asked for: the given delta, or the default.
Lifetime(held) ==
    IF held.delta # <<>> THEN held.delta[1]
    ELSE IF held.kind = "access" THEN ACCESS_TOKEN_EXPIRE_MINUTES
    ELSE REFRESH_TOKEN_EXPIRE_DAYS * 24 * 60

Decodes(token, t) ==
    /\ ~decode_access_token(token, t).raised
    /\ decode_access_token(token, t).data # None

\* C6: a token issued at time t with lifetime T decodes at every time before
\* t + T and does not decode at any time after t + T.
C6_TokenLifetime ==
    (bearer # None /\ DOMAIN bearer.token.payload \cap {"sub", "nbf"} = {"sub"})
    => /\ now < bearer.at + Lifetime(bearer) => Decodes(bearer.token, now)
       /\ now > bearer.at + Lifetime(bearer) => ~Decodes(bearer.token, now)

\* The same bound for the lifetimes Python does not treat as false: with a
\* non-zero lifetime, or none given and then the default, a token decodes
\* before its lifetime has passed and not after.
NonZeroLifetimeBounds ==
    (bearer # None /\ DOMAIN bearer.token.payload \cap {"sub", "nbf"} = {"sub"}
       /\ bearer.delta # <<0>>)
    => /\ now < bearer.at + Lifetime(bearer) => Decodes(bearer.token, now)
       /\ now > bearer.at + Lifetime(bearer) => ~Decodes(bearer.token, now)

\* C7: decode_access_token accepts a token only as the server issued it; a
\* token signed under another secret or with alg "none", and an issued token
\* whose payload or signature was altered, decode to None.
C7_OnlyIssuedTokensDecode ==
    last.op = "decode_access_token" =>
        /\ resp.data # None => (bearer # None /\ last.token = bearer.token)
        /\ (last.token \in Forged(now)
              \/ (bearer # None /\ last.token \in Tampered(bearer.token)))
           => resp.data = None

\* An issued, still valid token was altered and the altered token refused.
C7_Witness ==
    /\ last.op = "decode_access_token"
    /\ bearer # None
    /\ Decodes(bearer.token, now)
    /\ last.token \in Tampered(bearer.token)
    /\ HasSubject(last.token)
    /\ last.token.payload.sub # bearer.token.payload.sub
    /\ resp.data = None

\* C8: decode_access_token returns and never raises; it returns token data
\* with a subject or None, and None for a malformed token, a signature
\* mismatch, a missing sub, an expired exp and an internal error alike.
C8_DecodeNeverRaises ==
    last.op = "decode_access_token" =>
        /\ ~resp.raised
        /\ resp.data = None \/ resp.data.email \in Emails
        /\ (\/ last.token.form # "jws"
            \/ ~ServerSigned(last.token)
            \/ ~HasSubject(last.token)
            \/ ~Unexpired(last.token, now)
            \/ "nbf" \in DOMAIN last.token.payload)
           => resp.data = None

\* A server-signed token whose nbf makes jose raise TypeError decoded to None.
C8_Witness ==
    /\ last.op = "decode_access_token"
    /\ ServerSigned(last.token)
    /\ "nbf" \in DOMAIN last.token.payload
    /\ Unexpired(last.token, now)
    /\ resp = Returned(None)

\* C9: a refresh token carries type = refresh and, presented as the bearer
\* token, resolves no principal.
C9_RefreshTokenNotAccepted ==
    /\ (bearer # None /\ bearer.kind = "refresh")
       => ("type" \in DOMAIN bearer.token.payload /\ bearer.token.payload.type = "refresh")
    /\ (last.op = "me" /\ last.authorization.present
          /\ ServerSigned(last.authorization.token)
          /\ "type" \in DOMAIN last.authorization.token.payload)
       => (last.state_user = None /\ resp.status = 401)

\* C11: no two user records share an email, also when two registrations for
\* one email both passed the existence check before either inserted; of such
\* attempts exactly one creates a user: an insert succeeds exactly when the
\* email was absent from the store, and afterwards one record holds it.
C11_EmailUnique ==
    /\ \A u, v \in users : u.email = v.email => u = v
    /\ (last.op = "register" /\ last.stage = "commit")
       => /\ (resp.status = 201) <=> UnknownEmail(last.store, last.email)
          /\ Cardinality(query_by_email(users, last.email)) = 1

\* A registration that had passed the existence check reached its insert
\* after another registration had stored the same email, and created nothing.
C11_Witness ==
    /\ last.op = "register"
    /\ last.stage = "commit"
    /\ ~UnknownEmail(last.store, last.email)
    /\ users = last.store
    /\ Cardinality(query_by_email(users, last.email)) = 1

\* C12: when the insert of a registration fails on the uniqueness constraint
\* after the existence check had passed, the request ends with the same 400
\* "Email already registered" as the pre-check, not with a 500.
C12_InsertConflictIsDuplicateEmail ==
    (last.op = "register" /\ last.stage = "commit"
        /\ ~UnknownEmail(last.store, last.email))
       => /\ resp.status = 400
          /\ resp.body.message = "Email already registered"

\* C13: a user created through registration is active and not a superuser;
\* a successful registration answers 201 and writes exactly one record, and
\* an unsuccessful one writes none.
C13_RegisteredUserDefaults ==
    /\ \A u \in users : ~u.is_superuser
    /\ (last.op = "register" /\ last.stage = "commit")
       => IF resp.status = 201
          THEN \E u \in users : /\ u \notin last.store
                                /\ users = last.store \cup {u}
                                /\ u.email = last.email
                                /\ u.is_active
                                /\ ~u.is_superuser
                                /\ resp.body.is_active
                                /\ ~resp.body.is_superuser
          ELSE users = last.store

\* A registration succeeded with 201 and the store grew by one record.
C13_Witness ==
    /\ last.op = "register"
    /\ last.stage = "commit"
    /\ resp.status = 201
    /\ Cardinality(users) = Cardinality(last.store) + 1

\* The field names of a response body, those of its nested user included.
BodyFields(body) ==
    DOMAIN body \cup (IF "user" \in DOMAIN body THEN DOMAIN body.user ELSE {})
                \cup (IF "access_token" \in DOMAIN body
                      THEN DOMAIN body.access_token.payload ELSE {})

\* C14: no response of register, login or /auth/me carries the password
\* hash: neither the body, nor its user representation, nor the claims of
\* the access token have a hashed_password field.
C14_NoHashInResponse ==
    "body" \in DOMAIN resp => "hashed_password" \notin BodyFields(resp.body)

\* A login answered 200 with the representation of a stored user whose
\* record holds a hash.
C14_Witness ==
    /\ last.op = "login"
    /\ resp.status = 200
    /\ \E u \in users : /\ u.id = resp.body.user.id
                         /\ "hashed_password" \in DOMAIN u

\* The last step served a request to a rate-limited route: the limit check
\* and, when the request was admitted, the handler.
Limited ==
    /\ request # None
    /\ \/ last.op \in {"rate_limited", "login", "register_pending"}
       \/ (last.op = "register" /\ last.stage = "check")

\* The response is a rate-limit rejection.
TooMany == "status" \in DOMAIN resp /\ resp.status = 429

RouteLimit(path) == IF path = RegisterPath THEN register_limit ELSE login_limit

\* C15: rate limiting is fixed-window: of the requests one client sends to
\* register (N = 5) or to login (N = 10) within a minute, the first N are
\* admitted and every further one is rejected with 429; requests are counted
\* anew once the minute has passed.
C15_FixedWindow ==
    Limited =>
        (TooMany <=> Sent(traffic, request.client, request.path, None)
                        > RouteLimit(request.path).amount)

\* In a later window, the eleventh login of a client was rejected.
C15_Witness ==
    /\ Limited
    /\ TooMany
    /\ now >= Minute
    /\ request.path = LoginPath
    /\ Sent(traffic, request.client, LoginPath, None) = LoginPerMinute + 1

\* C16: the rate-limit key is "user:<id>" when the request carries a
\* resolved principal and "ip:<remote-address>" otherwise; two requests get
\* the same key exactly when they carry the same principal id, or carry no
\* principal and come from the same remote address.
C16_ClientIdentifier ==
    /\ \A r1, r2 \in Requests :
          (get_client_identifier(r1) = get_client_identifier(r2))
              <=> \/ /\ r1.state_user # None
                     /\ r2.state_user # None
                     /\ r1.state_user.id = r2.state_user.id
                  \/ /\ r1.state_user = None
                     /\ r2.state_user = None
                     /\ r1.client = r2.client
    /\ last.op = "get_client_identifier"
          => resp.key = IF request.state_user # None
                        THEN "user:" \o ToString(request.state_user.id)
                        ELSE IF request.client # None
                        THEN "ip:" \o request.client.host
                        ELSE "ip:127.0.0.1"

\* The key of a request with a principal was computed, and the same
\* principal calling from another address has that key too.
C16_Witness ==
    /\ last.op = "get_client_identifier"
    /\ request.state_user # None
    /\ \E c \in Clients :
          /\ c # request.client
          /\ get_client_identifier(Request(c, MePath, request.state_user)) = resp.key

\* The requests of the current minute that share the key of `req` on its
\* path: those of its principal from every address, or those of its address
\* without a principal.
RECURSIVE SumSent(_, _)
SumSent(tr, entries) ==
    IF entries = {} THEN 0
    ELSE LET e == CHOOSE x \in entries : TRUE
         IN  e.sent + SumSent(tr, entries \ {e})

SentByKey(tr, req) ==
    IF req.state_user # None
    THEN SumSent(tr, {e \in tr : e.path = req.path /\ e.principal = Principal(req)})
    ELSE Sent(tr, req.client, req.path, None)

\* C17: GET /auth/me, a route without a limit of its own, is bounded by the
\* default limit of 100 per minute per key: a request is rejected with 429
\* exactly when more than 100 requests of its key have arrived in the minute.
C17_DefaultLimits ==
    (last.op = "me" /\ request # None)
       => (TooMany <=> SentByKey(traffic, request) > default_limits[1].amount)

\* C18: requests to an authenticated endpoint are counted against the
\* counter of "user:<id>" whatever address they come from, and requests to
\* register and login against the counter of "ip:<address>".
C18_PerAccountLimit ==
    /\ (last.op = "me" /\ request # None /\ request.state_user # None)
          => \E e \in storage :
                /\ e.key[1] = "user:" \o ToString(request.state_user.id)
                /\ e.key[2] = MePath
                /\ e.count >= 1
    /\ Limited
          => \E e \in storage :
                /\ e.key[1] = "ip:" \o request.client.host
                /\ e.key[2] = request.path
                /\ e.count >= 1

\* C19: a rate-limited request never reaches its handler: a step that ends
\* in a 429 adds no user and no pending registration and issues no token.
C19_RejectedBeforeHandler ==
    [][("status" \in DOMAIN resp' /\ resp'.status = 429)
          => UNCHANGED <<users, nextId, pending, bearer>>]_vars

\* A login with the right password of a registered, active user was
\* rejected by the limiter.
C19_Witness ==
    /\ last.op = "rate_limited"
    /\ TooMany
    /\ request.path = LoginPath
    /\ CorrectPassword(users, last.email, last.password)
    /\ \E u \in users : u.email = last.email /\ u.is_active

EndToEnd(mount) ==
    /\ last.op = "not_found"
          => request.path \notin {mount \o <<"/auth", "/register">>,
                                  mount \o <<"/auth", "/login">>,
                                  mount \o <<"/auth", "/me">>}
    /\ (last.op = "register" /\ last.stage = "commit"
            /\ UnknownEmail(last.store, last.email))
          => resp.status = 201 /\ resp.body.email = last.email
    /\ (last.op = "login" /\ CorrectPassword(users, last.email, last.password)
            /\ \E u \in users : u.email = last.email /\ u.is_active)
          => /\ resp.status = 200
             /\ resp.body.access_token # Garbage
             /\ bearer.token = resp.body.access_token
    /\ (last.op = "me" /\ bearer # None /\ bearer.kind = "access"
            /\ last.authorization = Bearer(bearer.token)
            /\ Unexpired(bearer.token, now))
          => /\ resp.status = 200
             /\ resp.body.email = bearer.token.payload.sub
             /\ \E u \in users : u.email = resp.body.email /\ u.id = resp.body.id

\* C21: POST /auth/register with a fresh email answers 201, POST /auth/login
\* with the same credentials then answers 200 with an access token, and
\* GET /auth/me with that token, before it expires, answers 200 with the
\* registered email and the same user id.
C21_EndToEnd == EndToEnd(<<>>)

\* The same scenario over /api/auth/register, /api/auth/login, /api/auth/me.
MountedEndToEnd == EndToEnd(<<"/api">>)

\* The scenario ran to its end under /api: /api/auth/me answered 200 to the
\* token of a login.
MountedEndToEnd_Witness ==
    /\ last.op = "me"
    /\ request.path = MePath
    /\ bearer # None
    /\ last.authorization = Bearer(bearer.token)
    /\ resp.status = 200

\* Hashing round-trips over the passwords in `secrets`: verify(P1, hash(P2))
\* is true exactly when P1 = P2, and a login of an active user whose stored
\* hash is that of P2 succeeds exactly with P2.
RoundTrip(secrets) ==
    /\ (last.op = "verify_password" /\ last.plain \in secrets)
          => \A q \in secrets, s \in Salts :
                last.hashed = get_password_hash(q, s)
                    => (resp.result <=> last.plain = q)
    /\ (last.op = "login" /\ last.password \in secrets)
          => \A u \in users, q \in secrets, s \in Salts :
                (u.email = last.email /\ u.is_active
                    /\ u.hashed_password = get_password_hash(q, s))
                    => (resp.status = 200 <=> last.password = q)

\* C22: for every plaintext P, verify(P, hash(P)) is true, and for every
\* pair P1 # P2, verify(P1, hash(P2)) is false; login with the registered
\* password succeeds and login with any other password fails.
C22_HashRoundTrip == RoundTrip(HashPasswords)

\* The round trip over the passwords of at most 72 bytes.
ShortPasswordsRoundTrip == RoundTrip({p \in HashPasswords : Len(p) <= BcryptMaxBytes})

\* A login with a password other than the registered one was refused.
ShortPasswordsRoundTrip_Witness ==
    /\ last.op = "login"
    /\ Len(last.password) <= BcryptMaxBytes
    /\ resp.status = 401
    /\ \E u \in users, q \in Passwords, s \in Salts :
          /\ u.email = last.email
          /\ q # last.password
          /\ u.hashed_password = get_password_hash(q, s)

\* C23: verify_password is fail-closed: for a stored hash that is no valid
\* hash it returns false and does not raise, and a login against a user
\* whose stored hash is malformed gets the same 401 as a wrong password.
C23_VerifyFailClosed ==
    /\ (last.op = "verify_password" /\ last.hashed \in MalformedHashes)
          => resp = [result |-> FALSE]
    /\ last.op = "login"
          => \A u \in users :
                (u.email = last.email /\ u.hashed_password \in MalformedHashes)
                    => resp = InvalidCredentialsReply

\* A login for a user whose stored hash is malformed was answered 401.
C23_Witness ==
    /\ last.op = "login"
    /\ resp.status = 401
    /\ \E u \in users : u.email = last.email /\ u.hashed_password \in MalformedHashes

\* C24: the body of a business-rule failure carries its message in a field
\* named "detail": "Email already registered" with 400, "Incorrect email or
\* password" with 401 and "Inactive user" with 403.
C24_DetailField ==
    ("status" \in DOMAIN resp /\ last.op \in {"register", "login"}
        /\ resp.status \in {400, 401, 403})
       => /\ "detail" \in DOMAIN resp.body
          /\ resp.body.detail = IF resp.status = 400 THEN "Email already registered"
                                ELSE IF resp.status = 401
                                THEN "Incorrect email or password"
                                ELSE "Inactive user"

\* C25: a store failure or an unexpected exception in register, login or
\* principal resolution is answered 500 with a body fixed by the class of
\* the exception and the path: the exception's text is in no field of it.
C25_GenericServerError ==
    /\ last.op = "failure"
          => resp = [status |-> 500,
                     body |-> [error |-> IF last.exc.type = "SQLAlchemyError"
                                         THEN <<"DATABASE_ERROR">>
                                         ELSE <<"INTERNAL_SERVER_ERROR">>,
                               message |-> IF last.exc.type = "SQLAlchemyError"
                                           THEN "A database error occurred"
                                           ELSE "An unexpected error occurred",
                               details |-> None,
                               path |-> last.path]]
    /\ ("status" \in DOMAIN resp /\ resp.status >= 500)
          => /\ DOMAIN resp.body = {"error", "message", "details", "path"}
             /\ resp.body.message \in {"A database error occurred",
                                       "An unexpected error occurred"}
             /\ resp.body.details = None

\* An exception nothing expects, raised while the principal was resolved,
\* was answered 500.
C25_Witness ==
    /\ last.op = "failure"
    /\ last.path = MePath
    /\ last.exc \in Unexpected
    /\ resp.status = 500

\* C26: every token the codec issues, access or refresh, carries an iat
\* claim equal to the issue time and an exp claim equal to the issue time
\* plus its lifetime: the one given, or by default 30 minutes for an access
\* token and 7 days for a refresh token.
C26_IatAndExp ==
    bearer # None
       => /\ "iat" \in DOMAIN bearer.token.payload
          /\ bearer.token.payload.iat = bearer.at
          /\ "exp" \in DOMAIN bearer.token.payload
          /\ bearer.token.payload.exp = bearer.at + Lifetime(bearer)

\* Which tokens carry iat: the access tokens, and no refresh token.
IatOnAccessTokensOnly ==
    bearer # None
       => ("iat" \in DOMAIN bearer.token.payload <=> bearer.kind = "access")

\* C27: create_access_token sets exp to the issue time plus expires_delta
\* for every expires_delta supplied, a zero one included, and uses the
\* 30-minute default only when none is supplied; a token issued with a zero
\* lifetime is accepted at no later time.
C27_ExplicitDeltaHonoured ==
    (bearer # None /\ bearer.kind = "access")
       => /\ bearer.token.payload.exp
                = bearer.at + (IF bearer.delta = <<>>
                               THEN ACCESS_TOKEN_EXPIRE_MINUTES
                               ELSE bearer.delta[1])
          /\ (bearer.delta = <<0>> /\ now > bearer.at)
                => ~Decodes(bearer.token, now)

\* C28: the principal is request-scoped: a successful resolution puts the
\* resolved user on the context of its own request before the handler runs,
\* a failed one puts nothing there, and however concurrent requests
\* interleave, the principal on a request's context, and with it the
\* rate-limit key, is the user its own token names.
C28_RequestScopedPrincipal ==
    /\ \A r \in inflight :
          /\ r.stage \in {"resolving", "failed"} => r.state_user = None
          /\ r.stage = "handling"
                => /\ r.state_user # None
                   /\ r.state_user = r.current_user
                   /\ r.authorization.present
                   /\ r.state_user.email = r.authorization.token.payload.sub
    /\ last.op = "me_handled"
          => /\ request.state_user.email = last.authorization.token.payload.sub
             /\ resp.body.email = last.authorization.token.payload.sub
             /\ last.key = "user:" \o ToString(request.state_user.id)

\* Two requests of different users are between resolution and handler at
\* the same time.
C28_Witness ==
    \E r1, r2 \in inflight :
        /\ r1.stage = "handling"
        /\ r2.stage = "handling"
        /\ r1.state_user.id # r2.state_user.id

\* C29: resolution of the current principal ignores the active flag: GET
\* /auth/me with a token that verifies, is unexpired and names a stored user
\* answers 200 with that user whether the user is active or not, while a
\* login with the right password of a deactivated user is refused with 403.
C29_ResolutionIgnoresActiveFlag ==
    /\ (last.op = "me" /\ Resolvable(last.authorization, users, now))
          => /\ resp.status = 200
             /\ \E u \in users :
                   /\ u.email = last.authorization.token.payload.sub
                   /\ resp.body = UserResponse(u)
                   /\ last.state_user = u
    /\ (last.op = "login" /\ CorrectPassword(users, last.email, last.password)
          /\ \E u \in users : u.email = last.email /\ ~u.is_active)
          => /\ resp.status = 403
             /\ resp.body.message = "Inactive user"

\* A user deactivated after login is still given their own record.
C29_Witness ==
    /\ last.op = "me"
    /\ Resolvable(last.authorization, users, now)
    /\ resp.status = 200
    /\ ~resp.body.is_active

\* The login counter of a remote address in the current window.
LoginCounter(client) ==
    storage_get(storage, <<"ip:" \o client.host, LoginPath, LoginPerMinute, Minute>>, now)

\* C30: every login request that reaches the limiter is counted under the
\* caller's remote address, whatever email it names and whether it is
\* answered 200, 401, 403 or 429: the counter of the address equals the
\* number of logins the address has sent in the minute, and once that number
\* has passed 10 the request is rejected with 429 even when its credentials
\* are right.
C30_EveryLoginCounted ==
    (request # None /\ request.path = LoginPath /\ last.op \in {"login", "rate_limited"})
        => /\ LoginCounter(request.client)
                = Sent(traffic, request.client, LoginPath, None)
           /\ Sent(traffic, request.client, LoginPath, None) > LoginPerMinute
                => TooMany
           /\ TooMany
                => Sent(traffic, request.client, LoginPath, None) > LoginPerMinute

\* Ten failed logins from one address, none of which was given a token, and
\* the eleventh, with the right credentials of an active user, is rejected.
C30_Witness ==
    /\ last.op = "rate_limited"
    /\ request.path = LoginPath
    /\ resp.status = 429
    /\ bearer = None
    /\ LoginCounter(request.client) = LoginPerMinute + 1
    /\ CorrectPassword(users, last.email, last.password)
    /\ \E u \in users : u.email = last.email /\ u.is_active

====
